---- MODULE Spec2Model ----
(***************************************************************************)
(* TranslatorJHU backend: the real-time session and pipeline layer.        *)
(*                                                                         *)
(*   Spec     WebSocketHandler + TranslationPipeline (websocketHandler.ts, *)
(*            translationPipeline.ts): one coroutine per inbound frame,    *)
(*            suspended at every await.                                    *)
(*   SpecTTS  TTSService.synthesize and its provider fallback.             *)
(*   SpecSeg  the timer-based audio segmenter of simple-test-server.js     *)
(*            (both server variants held in that file).                    *)
(*   SpecSweep the idle sweep of WebSocketHandler.                         *)
(*   SpecTr   TranslationService (translationService.ts) as driven by      *)
(*            TranslationPipeline: session contexts and their history.     *)
(*   SpecGl   the glossary of a translation session (addGlossaryTerm).     *)
(*   SpecStt  STTService (stt/sttService.ts): streams, the auto-finalize   *)
(*            timer, the restart after a stream error, and the frames      *)
(*            processAudioChunk writes to the stream.                      *)
(***************************************************************************)
EXTENDS Integers, Sequences, FiniteSets, TLC

\* ---------------------------------------------------------------- bounds
MaxClients == 1
MaxMsgs == 4
MaxTtsCalls == 2
MaxAttempts == 4
MaxSegClients == 2
MaxSegMsgs == 2
MaxClock == 1
MaxSweepClients == 2
MaxSweepMsgs == 3
MaxSweeps == 7
SweepInterval == 60000
IdleTimeout == 300000
MaxTranslations == 11
MaxTsInFlight == 1
MaxTsStarts == 2
MaxTsFailures == 1
HistoryLimit == 20
MaxTermLen == 2
MaxGlossaryCalls == 3
MaxSttObjs == 2
MaxUtterances == 2
MaxSttEvents == 3
MaxSttFrames == 2
MaxStreamErrors == 1
SilenceThreshold == 15
MinAudioLength == 8000

\* ------------------------------------------------------------- constants
NoSession == 0
ClientIds == 1..MaxClients
HandlerIds == 1..MaxMsgs

\* session ids a client may put in session:start; NoSession is "omitted"
\* session:start payloads <<sessionId, sourceLanguage, targetLanguage>>;
\* NoSession and "" are "omitted"
StartArgs == {<<1, "fr", "de">>, <<NoSession, "", "">>}
\* config:update payloads <<sourceLanguage, targetLanguage>>
ConfigArgs == {<<"it", "">>}

VARIABLES
  sttInit,      \* STTService.isInitialized (Google credentials present)
  trInit,       \* TranslationService.isInitialized (GEMINI_API_KEY present)
  ws,           \* per connection: "none" | "open" | "closed" (ws.readyState)
  clients,      \* WebSocketHandler.clients: per connection the ClientSession
  pipeSessions, \* TranslationPipeline.sessions (its keys)
  pendingStops, \* stopSession calls of a disconnect, not yet past their awaits
  handlers,     \* one coroutine per inbound frame
  nextH,        \* frames received so far + 1
  sent          \* per connection the events written to the socket, in order

wsVars == <<sttInit, trInit, ws, clients, pipeSessions, pendingStops,
            handlers, nextH, sent>>

VARIABLES
  ttsEnv,       \* TTS providers whose API keys are in process.env
  ttsProvider,  \* TTSService.sessions: the session's SessionConfig.provider
  ttsCall,      \* the synthesize call in progress
  ttsCalls      \* synthesize calls started so far

ttsVars == <<ttsEnv, ttsProvider, ttsCall, ttsCalls>>

VARIABLES
  segVariant,   \* which server of simple-test-server.js runs: 1 or 2
  segWs,        \* per connection: "none" | "open" | "closed"
  audioBuffer,  \* module-level audioBuffer: the chunks, as <<sender, length>>
  segTimer,     \* audioProcessingTimeout while its timer is pending: 0, or
                \* the connection whose handler armed it
  segPending,   \* the setTimeout(..., 2000) timers not yet fired or cleared,
                \* in the order they were armed; `due` once 2000 ms have passed
  flushes,      \* timer callbacks suspended at an await, oldest first
  delayed,      \* pending setTimeout(..., 500) translation sends, in the
                \* order they were armed
  segNow,       \* Date.now()
  segMsgs,      \* frames received so far
  segLastLen,   \* length of the last binary frame received (0: none yet)
  segSent       \* per connection the events written to the socket, in order

segVars == <<segVariant, segWs, audioBuffer, segTimer, segPending, flushes, delayed, segNow,
             segMsgs, segLastLen, segSent>>

VARIABLES
  swNow,        \* new Date().getTime(), in ms
  swWs,         \* per connection: "none" | "open" | "closed"
  swTable,      \* WebSocketHandler.clients, with each client's lastActivity
  swRuns,       \* per connection the processAudioChunk runs in flight
  swStops,      \* session ids handed to stopSession by handleClientDisconnect
  swEvents,     \* per connection the number of events sent to it
  swMsgs        \* frames received so far

sweepVars == <<swNow, swWs, swTable, swRuns, swStops, swEvents, swMsgs>>

VARIABLES
  tsSttInit,    \* STTService.isInitialized
  tsTrInit,     \* TranslationService.isInitialized && genAI
  tsPipe,       \* TranslationPipeline.sessions (its keys)
  tsCtx,        \* TranslationService.sessions: per key the SessionContext
  tsGen,        \* SessionContext objects created so far (object identity)
  tsCalls,      \* translate calls suspended at generateContent
  tsN,          \* translate calls started so far
  tsStarts,     \* session:start messages handled so far
  tsFails,      \* generateContent calls that threw so far
  tsResult,     \* what the last finished translate call returned
  tsClient      \* the client's sourceLanguage and targetLanguage, as a pair

trVars == <<tsSttInit, tsTrInit, tsPipe, tsCtx, tsGen, tsCalls, tsN, tsStarts,
            tsFails, tsResult, tsClient>>

VARIABLES
  glSession,    \* whether TranslationService.sessions holds the session
  glossary,     \* its SessionContext.glossary: a Map from key to translation
  glCalls       \* the addGlossaryTerm calls made on the context, in order

glVars == <<glSession, glossary, glCalls>>

VARIABLES
  stInit,       \* STTService: speechClient && isInitialized
  stPipe,       \* whether TranslationPipeline.sessions has the session id
  stObjs,       \* the SessionStream objects created so far, by creation number
  stCur,        \* STTService.sessions.get(sessionId): 0, or the object's number
  stGen,        \* SessionStream objects created so far
  stEvents,     \* "data" events emitted by the streams so far
  stDelivered,  \* the results handed to onTranscription callbacks, in order
  stRestarts,   \* pending setTimeout(..., 1000) restarts of handleStreamError
  stErrors,     \* "error" events emitted by the streams so far
  stFrames,     \* binary frames received so far
  stRuns,       \* processAudioChunk runs suspended at an await: frame -> pc
  stWritten     \* the frames written to the session's streams, in order

sttVars == <<stInit, stPipe, stObjs, stCur, stGen, stEvents, stDelivered, stRestarts,
             stErrors, stFrames, stRuns, stWritten>>

vars == <<wsVars, ttsVars, segVars, sweepVars, trVars, glVars, sttVars>>

\* what the steps of one subsystem leave alone
notWsVars == <<ttsVars, segVars, sweepVars, trVars, glVars, sttVars>>
notTtsVars == <<wsVars, segVars, sweepVars, trVars, glVars, sttVars>>
notSegVars == <<wsVars, ttsVars, sweepVars, trVars, glVars, sttVars>>
notSweepVars == <<wsVars, ttsVars, segVars, trVars, glVars, sttVars>>
notTrVars == <<wsVars, ttsVars, segVars, sweepVars, glVars, sttVars>>
notGlVars == <<wsVars, ttsVars, segVars, sweepVars, trVars, sttVars>>
notSttVars == <<wsVars, ttsVars, segVars, sweepVars, trVars, glVars>>

\* uuidv4(): an id no client supplies, one per handler that draws it
uuidv4(h) == 100 + h

\* `${clientId}_session`
ChunkSessionId(c) == 200 + c

NoHandler ==
  [client |-> 0, kind |-> "none", pc |-> "none", sid |-> NoSession,
   src |-> "", tgt |-> ""]

NewClient ==
  [present |-> TRUE, sessionId |-> NoSession, sourceLanguage |-> "en",
   targetLanguage |-> "es", isRecording |-> FALSE]

AbsentClient ==
  [present |-> FALSE, sessionId |-> NoSession, sourceLanguage |-> "en",
   targetLanguage |-> "es", isRecording |-> FALSE]

Ev(t, id, sid, src, tgt, flag) ==
  [type |-> t, id |-> id, sessionId |-> sid, sourceLanguage |-> src,
   targetLanguage |-> tgt, flag |-> flag]

\* WebSocketHandler.sendMessage: dropped unless the client is in the table
\* and its socket is OPEN
sendMessage(log, c, e) ==
  IF clients[c].present /\ ws[c] = "open"
  THEN [log EXCEPT ![c] = Append(@, e)]
  ELSE log

sendError(log, c, msg) ==
  sendMessage(log, c, Ev("error", 0, NoSession, msg, "", FALSE))

\* data.x || dflt
OrDefault(x, dflt) == IF x = "" THEN dflt ELSE x

\* what the awaited sttService.processAudio can settle with, seen from
\* processAudioChunk (declared Promise<TranscriptionResult | null>):
\*   "null"    no result (what STTService.processAudio resolves with after
\*             writing the chunk to its stream)
\*   "interim" a result with isFinal = false
\*   "final"   a result with isFinal = true and non-blank text
\*   "blank"   a result with isFinal = true and blank text
\*   "throw"   rejection
SttOutcomes ==
  IF sttInit THEN {"null", "interim", "final", "blank", "throw"} ELSE {"throw"}

\* what the awaited translationService.translate can settle with:
\*   "text"  the translated text
\*   "null"  generateContent and fallbackTranslation both failed
\*   "throw" "Translation service not initialized"
TrOutcomes == IF trInit THEN {"text", "null"} ELSE {"throw"}

\* an audio handler between its first await and its return
InFlightPcs == {"init", "stt", "translate", "tts"}

InitWS ==
  /\ sttInit \in BOOLEAN
  /\ trInit \in BOOLEAN
  /\ ws = [c \in ClientIds |-> "none"]
  /\ clients = [c \in ClientIds |-> AbsentClient]
  /\ pipeSessions = {}
  /\ pendingStops = {}
  /\ handlers = [h \in HandlerIds |-> NoHandler]
  /\ nextH = 1
  /\ sent = [c \in ClientIds |-> <<>>]

ParkedWS ==
  /\ sttInit = FALSE
  /\ trInit = FALSE
  /\ ws = [c \in ClientIds |-> "none"]
  /\ clients = [c \in ClientIds |-> AbsentClient]
  /\ pipeSessions = {}
  /\ pendingStops = {}
  /\ handlers = [h \in HandlerIds |-> NoHandler]
  /\ nextH = 1
  /\ sent = [c \in ClientIds |-> <<>>]

\* wss.on("connection")
Connect(c) ==
  /\ ws[c] = "none"
  /\ ws' = [ws EXCEPT ![c] = "open"]
  /\ clients' = [clients EXCEPT ![c] = NewClient]
  /\ sent' = [sent EXCEPT ![c] =
                Append(@, Ev("connected", c, NoSession, "", "", FALSE))]
  /\ UNCHANGED <<sttInit, trInit, pipeSessions, pendingStops, handlers, nextH>>
  /\ UNCHANGED notWsVars

\* a frame can arrive on an open socket
CanReceive(c) == ws[c] = "open" /\ nextH <= MaxMsgs

Spawn(c, kind, pc, sid, src, tgt) ==
  /\ handlers' = [handlers EXCEPT ![nextH] =
       IF pc = "done" THEN NoHandler
       ELSE [client |-> c, kind |-> kind, pc |-> pc, sid |-> sid, src |-> src,
             tgt |-> tgt]]
  /\ nextH' = nextH + 1

\* ws.on("message") with a Buffer: handleAudioData up to its first await
AudioFrame(c) ==
  /\ CanReceive(c)
  /\ IF ~clients[c].present \/ ~clients[c].isRecording
     THEN /\ Spawn(c, "audio", "done", NoSession, "", "")
          /\ UNCHANGED pipeSessions
     ELSE IF ChunkSessionId(c) \notin pipeSessions
          THEN \* startSession: sessions.set, then the services' initializeSession
               /\ pipeSessions' = pipeSessions \cup {ChunkSessionId(c)}
               /\ Spawn(c, "audio", "init", ChunkSessionId(c),
                        clients[c].sourceLanguage, clients[c].targetLanguage)
          ELSE /\ Spawn(c, "audio", "stt", ChunkSessionId(c),
                        clients[c].sourceLanguage, clients[c].targetLanguage)
               /\ UNCHANGED pipeSessions
  /\ UNCHANGED <<sttInit, trInit, ws, clients, pendingStops, sent>>
  /\ UNCHANGED notWsVars

\* processAudioChunk's startSession whose failure also ends the recording
AudioInitDone_stopsRecording(h) ==
  /\ handlers[h].kind = "audio" /\ handlers[h].pc = "init"
  /\ IF sttInit /\ trInit
     THEN /\ handlers' = [handlers EXCEPT ![h].pc = "stt"]
          /\ UNCHANGED <<sent, clients>>
     ELSE /\ handlers' = [handlers EXCEPT ![h] = NoHandler]
          /\ sent' = sendError(sent, handlers[h].client, "Audio processing failed")
          /\ clients' = [clients EXCEPT ![handlers[h].client].isRecording = FALSE]
  /\ UNCHANGED <<sttInit, trInit, ws, pipeSessions, pendingStops, nextH>>
  /\ UNCHANGED notWsVars

\* processAudioChunk resumes after `await this.startSession(...)`
AudioInitDone(h) ==
  /\ handlers[h].kind = "audio" /\ handlers[h].pc = "init"
  /\ IF sttInit /\ trInit
     THEN /\ handlers' = [handlers EXCEPT ![h].pc = "stt"]
          /\ UNCHANGED sent
     ELSE \* initializeSession threw: handleAudioData's catch
          /\ handlers' = [handlers EXCEPT ![h] = NoHandler]
          /\ sent' = sendError(sent, handlers[h].client, "Audio processing failed")
  /\ UNCHANGED <<sttInit, trInit, ws, clients, pipeSessions, pendingStops, nextH>>
  /\ UNCHANGED notWsVars

\* processAudioChunk that sends interim results on to the translation stage
SttDone_translatesInterim(h, out) ==
  /\ handlers[h].kind = "audio" /\ handlers[h].pc = "stt"
  /\ out \in SttOutcomes
  /\ LET c == handlers[h].client
         tre == Ev("transcription", h, NoSession, "", "", out # "interim")
     IN CASE out = "throw" ->
               /\ handlers' = [handlers EXCEPT ![h] = NoHandler]
               /\ sent' = sendError(sent, c, "Audio processing failed")
          [] out = "null" ->
               /\ handlers' = [handlers EXCEPT ![h] = NoHandler]
               /\ UNCHANGED sent
          [] out = "blank" ->
               /\ handlers' = [handlers EXCEPT ![h] = NoHandler]
               /\ sent' = sendMessage(sent, c, tre)
          [] out \in {"interim", "final"} ->
               /\ handlers' = [handlers EXCEPT ![h].pc = "translate"]
               /\ sent' = sendMessage(sent, c, tre)
  /\ UNCHANGED <<sttInit, trInit, ws, clients, pipeSessions, pendingStops, nextH>>
  /\ UNCHANGED notWsVars

\* processAudioChunk resumes after `await this.sttService.processAudio(...)`
SttDone(h, out) ==
  /\ handlers[h].kind = "audio" /\ handlers[h].pc = "stt"
  /\ out \in SttOutcomes
  /\ LET c == handlers[h].client
         tre == Ev("transcription", h, NoSession, "", "", out # "interim")
     IN CASE out = "throw" ->
               /\ handlers' = [handlers EXCEPT ![h] = NoHandler]
               /\ sent' = sendError(sent, c, "Audio processing failed")
          [] out = "null" ->
               /\ handlers' = [handlers EXCEPT ![h] = NoHandler]
               /\ UNCHANGED sent
          [] out \in {"interim", "blank"} ->
               /\ handlers' = [handlers EXCEPT ![h] = NoHandler]
               /\ sent' = sendMessage(sent, c, tre)
          [] out = "final" ->
               /\ handlers' = [handlers EXCEPT ![h].pc = "translate"]
               /\ sent' = sendMessage(sent, c, tre)
  /\ UNCHANGED <<sttInit, trInit, ws, clients, pipeSessions, pendingStops, nextH>>
  /\ UNCHANGED notWsVars

\* processAudioChunk resumes after `await this.translationService.translate(...)`
TranslateDone(h, out) ==
  /\ handlers[h].kind = "audio" /\ handlers[h].pc = "translate"
  /\ out \in TrOutcomes
  /\ CASE out = "throw" ->
            /\ handlers' = [handlers EXCEPT ![h] = NoHandler]
            /\ sent' = sendError(sent, handlers[h].client, "Audio processing failed")
       [] out = "null" ->
            /\ handlers' = [handlers EXCEPT ![h] = NoHandler]
            /\ UNCHANGED sent
       [] out = "text" ->
            /\ handlers' = [handlers EXCEPT ![h].pc = "tts"]
            /\ UNCHANGED sent
  /\ UNCHANGED <<sttInit, trInit, ws, clients, pipeSessions, pendingStops, nextH>>
  /\ UNCHANGED notWsVars

\* processAudioChunk resumes after `await this.ttsService.synthesize(...)`,
\* which resolves with audio or null
TtsDone(h, audio) ==
  /\ handlers[h].kind = "audio" /\ handlers[h].pc = "tts"
  /\ handlers' = [handlers EXCEPT ![h] = NoHandler]
  /\ sent' = sendMessage(sent, handlers[h].client,
                         Ev("translation", h, NoSession, "", "", audio))
  /\ UNCHANGED <<sttInit, trInit, ws, clients, pipeSessions, pendingStops, nextH>>
  /\ UNCHANGED notWsVars

\* handleSessionStart up to `await this.translationPipeline.startSession(...)`
SessionStart(c, sid, src, tgt) ==
  /\ CanReceive(c)
  /\ IF ~clients[c].present
     THEN /\ Spawn(c, "session:start", "done", sid, src, tgt)
          /\ UNCHANGED <<clients, pipeSessions>>
     ELSE LET s == IF sid = NoSession THEN uuidv4(nextH) ELSE sid
          IN /\ clients' = [clients EXCEPT ![c].sessionId = s,
                              ![c].sourceLanguage = OrDefault(src, "en"),
                              ![c].targetLanguage = OrDefault(tgt, "es")]
             /\ pipeSessions' = pipeSessions \cup {s}
             /\ Spawn(c, "session:start", "starting", sid, src, tgt)
  /\ UNCHANGED <<sttInit, trInit, ws, pendingStops, sent>>
  /\ UNCHANGED notWsVars

\* handleSessionStart resumes: session:started with the client's fields as
\* they are now, or the catch
SessionStartDone(h) ==
  /\ handlers[h].kind = "session:start" /\ handlers[h].pc = "starting"
  /\ LET c == handlers[h].client
     IN sent' = IF sttInit /\ trInit
                THEN sendMessage(sent, c,
                       Ev("session:started", 0, clients[c].sessionId,
                          clients[c].sourceLanguage, clients[c].targetLanguage, FALSE))
                ELSE sendError(sent, c, "Failed to start session")
  /\ handlers' = [handlers EXCEPT ![h] = NoHandler]
  /\ UNCHANGED <<sttInit, trInit, ws, clients, pipeSessions, pendingStops, nextH>>
  /\ UNCHANGED notWsVars

\* handleSessionStop up to `await this.translationPipeline.stopSession(...)`
SessionStop(c) ==
  /\ CanReceive(c)
  /\ IF ~clients[c].present \/ clients[c].sessionId = NoSession
     THEN Spawn(c, "session:stop", "done", NoSession, "", "")
     ELSE Spawn(c, "session:stop", "stopping", clients[c].sessionId, "", "")
  /\ UNCHANGED <<sttInit, trInit, ws, clients, pipeSessions, pendingStops, sent>>
  /\ UNCHANGED notWsVars

\* handleSessionStop that clears the session id but not isRecording
SessionStopDone_keepsRecording(h) ==
  /\ handlers[h].kind = "session:stop" /\ handlers[h].pc = "stopping"
  /\ LET c == handlers[h].client
     IN /\ pipeSessions' = pipeSessions \ {handlers[h].sid}
        /\ clients' = [clients EXCEPT ![c].sessionId = NoSession]
        /\ sent' = sendMessage(sent, c,
                     Ev("session:stopped", 0, NoSession, "", "", FALSE))
  /\ handlers' = [handlers EXCEPT ![h] = NoHandler]
  /\ UNCHANGED <<sttInit, trInit, ws, pendingStops, nextH>>
  /\ UNCHANGED notWsVars

\* handleSessionStop resumes after stopSession
SessionStopDone(h) ==
  /\ handlers[h].kind = "session:stop" /\ handlers[h].pc = "stopping"
  /\ LET c == handlers[h].client
     IN /\ pipeSessions' = pipeSessions \ {handlers[h].sid}
        /\ clients' = [clients EXCEPT ![c].sessionId = NoSession,
                                      ![c].isRecording = FALSE]
        /\ sent' = sendMessage(sent, c,
                     Ev("session:stopped", 0, NoSession, "", "", FALSE))
  /\ handlers' = [handlers EXCEPT ![h] = NoHandler]
  /\ UNCHANGED <<sttInit, trInit, ws, pendingStops, nextH>>
  /\ UNCHANGED notWsVars

\* handleAudioStart with its guard on isRecording instead of sessionId
AudioStart_guardsRecording(c) ==
  /\ CanReceive(c)
  /\ Spawn(c, "audio:start", "done", NoSession, "", "")
  /\ IF ~clients[c].present \/ ~clients[c].isRecording
     THEN /\ sent' = sendError(sent, c, "No active session")
          /\ UNCHANGED clients
     ELSE /\ clients' = [clients EXCEPT ![c].isRecording = TRUE]
          /\ sent' = sendMessage(sent, c,
                       Ev("audio:started", 0, NoSession, "", "", FALSE))
  /\ UNCHANGED <<sttInit, trInit, ws, pipeSessions, pendingStops>>
  /\ UNCHANGED notWsVars

\* handleAudioStart that returns without a reply when there is no session
AudioStart_silentReject(c) ==
  /\ CanReceive(c)
  /\ Spawn(c, "audio:start", "done", NoSession, "", "")
  /\ IF ~clients[c].present \/ clients[c].sessionId = NoSession
     THEN UNCHANGED <<clients, sent>>
     ELSE /\ clients' = [clients EXCEPT ![c].isRecording = TRUE]
          /\ sent' = sendMessage(sent, c,
                       Ev("audio:started", 0, NoSession, "", "", FALSE))
  /\ UNCHANGED <<sttInit, trInit, ws, pipeSessions, pendingStops>>
  /\ UNCHANGED notWsVars

\* handleAudioStart (no await inside)
AudioStart(c) ==
  /\ CanReceive(c)
  /\ Spawn(c, "audio:start", "done", NoSession, "", "")
  /\ IF ~clients[c].present \/ clients[c].sessionId = NoSession
     THEN /\ sent' = sendError(sent, c, "No active session")
          /\ UNCHANGED clients
     ELSE /\ clients' = [clients EXCEPT ![c].isRecording = TRUE]
          /\ sent' = sendMessage(sent, c,
                       Ev("audio:started", 0, NoSession, "", "", FALSE))
  /\ UNCHANGED <<sttInit, trInit, ws, pipeSessions, pendingStops>>
  /\ UNCHANGED notWsVars

\* handleAudioStop up to `await this.translationPipeline.flushSession(...)`
AudioStop(c) ==
  /\ CanReceive(c)
  /\ IF ~clients[c].present
     THEN /\ Spawn(c, "audio:stop", "done", NoSession, "", "")
          /\ UNCHANGED <<clients, sent>>
     ELSE /\ clients' = [clients EXCEPT ![c].isRecording = FALSE]
          /\ IF clients[c].sessionId # NoSession
             THEN /\ Spawn(c, "audio:stop", "flushing", clients[c].sessionId, "", "")
                  /\ UNCHANGED sent
             ELSE /\ Spawn(c, "audio:stop", "done", NoSession, "", "")
                  /\ sent' = sendMessage(sent, c,
                               Ev("audio:stopped", 0, NoSession, "", "", FALSE))
  /\ UNCHANGED <<sttInit, trInit, ws, pipeSessions, pendingStops>>
  /\ UNCHANGED notWsVars

\* handleAudioStop resumes after flushSession
AudioStopDone(h) ==
  /\ handlers[h].kind = "audio:stop" /\ handlers[h].pc = "flushing"
  /\ sent' = sendMessage(sent, handlers[h].client,
                         Ev("audio:stopped", 0, NoSession, "", "", FALSE))
  /\ handlers' = [handlers EXCEPT ![h] = NoHandler]
  /\ UNCHANGED <<sttInit, trInit, ws, clients, pipeSessions, pendingStops, nextH>>
  /\ UNCHANGED notWsVars

\* handleConfigUpdate (no await inside)
ConfigUpdate(c, src, tgt) ==
  /\ CanReceive(c)
  /\ Spawn(c, "config:update", "done", NoSession, src, tgt)
  /\ IF ~clients[c].present
     THEN UNCHANGED <<clients, sent>>
     ELSE LET s == OrDefault(src, clients[c].sourceLanguage)
              t == OrDefault(tgt, clients[c].targetLanguage)
          IN /\ clients' = [clients EXCEPT ![c].sourceLanguage = s,
                                           ![c].targetLanguage = t]
             /\ sent' = sendMessage(sent, c,
                          Ev("config:updated", 0, NoSession, s, t, FALSE))
  /\ UNCHANGED <<sttInit, trInit, ws, pipeSessions, pendingStops>>
  /\ UNCHANGED notWsVars

\* handleAudioSilence: nothing without a session; with one, data.timestamp is
\* read (a message without data throws into ws.on("message")'s catch) and
\* handleSilence changes nothing
AudioSilence(c, hasData) ==
  /\ CanReceive(c)
  /\ Spawn(c, "audio:silence", "done", NoSession, "", "")
  /\ IF ~clients[c].present \/ clients[c].sessionId = NoSession \/ hasData
     THEN UNCHANGED sent
     ELSE sent' = sendError(sent, c, "Invalid message format")
  /\ UNCHANGED <<sttInit, trInit, ws, clients, pipeSessions, pendingStops>>
  /\ UNCHANGED notWsVars

\* handleMessage, default case: a parsed message of a type not in the switch
UnknownMessage(c) ==
  /\ CanReceive(c)
  /\ Spawn(c, "unknown", "done", NoSession, "", "")
  /\ sent' = sendError(sent, c, "Unknown message type")
  /\ UNCHANGED <<sttInit, trInit, ws, clients, pipeSessions, pendingStops>>
  /\ UNCHANGED notWsVars

\* ws.on("message") with a text frame that JSON.parse rejects. The handler
\* that tests for a Buffer first reports it from its catch; the handler that
\* tries JSON first hands the frame to handleAudioData.
InvalidMessage(c, jsonFirst) ==
  IF jsonFirst
  THEN AudioFrame(c)
  ELSE /\ CanReceive(c)
       /\ Spawn(c, "invalid", "done", NoSession, "", "")
       /\ sent' = sendError(sent, c, "Invalid message format")
       /\ UNCHANGED <<sttInit, trInit, ws, clients, pipeSessions, pendingStops>>
       /\ UNCHANGED notWsVars

\* ws.on("close") / ws.on("error"): handleClientDisconnect
Disconnect(c) ==
  /\ ws[c] = "open"
  /\ ws' = [ws EXCEPT ![c] = "closed"]
  /\ pendingStops' =
       IF clients[c].present /\ clients[c].sessionId \in pipeSessions
       THEN pendingStops \cup {clients[c].sessionId}
       ELSE pendingStops
  /\ clients' = [clients EXCEPT ![c].present = FALSE]
  /\ UNCHANGED <<sttInit, trInit, pipeSessions, handlers, nextH, sent>>
  /\ UNCHANGED notWsVars

\* the stopSession a disconnect started gets past its awaits: sessions.delete
StopSessionDone(s) ==
  /\ s \in pendingStops
  /\ pendingStops' = pendingStops \ {s}
  /\ pipeSessions' = pipeSessions \ {s}
  /\ UNCHANGED <<sttInit, trInit, ws, clients, handlers, nextH, sent>>
  /\ UNCHANGED notWsVars

NextWS ==
  \/ \E c \in ClientIds : Connect(c)
  \/ \E c \in ClientIds : AudioFrame(c)
  \/ \E h \in HandlerIds : AudioInitDone(h)
  \/ \E h \in HandlerIds : \E out \in {"null", "interim", "final", "blank", "throw"} :
        SttDone(h, out)
  \/ \E h \in HandlerIds : \E out \in {"text", "null", "throw"} : TranslateDone(h, out)
  \/ \E h \in HandlerIds : \E audio \in BOOLEAN : TtsDone(h, audio)
  \/ \E c \in ClientIds : \E a \in StartArgs : SessionStart(c, a[1], a[2], a[3])
  \/ \E h \in HandlerIds : SessionStartDone(h)
  \/ \E c \in ClientIds : SessionStop(c)
  \/ \E h \in HandlerIds : SessionStopDone(h)
  \/ \E c \in ClientIds : AudioStart(c)
  \/ \E c \in ClientIds : AudioStop(c)
  \/ \E h \in HandlerIds : AudioStopDone(h)
  \/ \E c \in ClientIds : \E a \in ConfigArgs : ConfigUpdate(c, a[1], a[2])
  \/ \E c \in ClientIds : \E hasData \in BOOLEAN : AudioSilence(c, hasData)
  \/ \E c \in ClientIds : UnknownMessage(c)
  \/ \E c \in ClientIds : \E jsonFirst \in BOOLEAN : InvalidMessage(c, jsonFirst)
  \/ \E c \in ClientIds : Disconnect(c)
  \/ \E s \in pendingStops : StopSessionDone(s)

\* =================================================================== TTS
\* TTSService (tts/ttsService.ts)

\* the order in which initializeProviders fills the providers Map
ProviderOrder == <<"elevenlabs", "azure", "google", "cartesia">>
ProviderNames == {ProviderOrder[i] : i \in DOMAIN ProviderOrder}

\* the Map's entries in iteration order: the configured providers
RECURSIVE Configured(_, _)
Configured(env, i) ==
  IF i > Len(ProviderOrder) THEN <<>>
  ELSE IF ProviderOrder[i] \in env
       THEN <<ProviderOrder[i]>> \o Configured(env, i + 1)
       ELSE Configured(env, i + 1)

Providers == Configured(ttsEnv, 1)

\* provider.isAvailable(): the same environment test that configured it
isAvailable(p) == p \in ttsEnv

\* this.defaultProvider after initializeProviders
defaultProvider ==
  IF "elevenlabs" \in ttsEnv THEN "elevenlabs"
  ELSE IF "azure" \in ttsEnv THEN "azure"
  ELSE "elevenlabs"

\* findAvailableProvider(exclude): the first available provider whose name is
\* not `exclude`, or "none" (null)
findAvailableProvider(exclude) ==
  LET ok == {i \in DOMAIN Providers :
               Providers[i] # exclude /\ isAvailable(Providers[i])}
  IN IF ok = {} THEN "none"
     ELSE Providers[CHOOSE i \in ok : \A j \in ok : i <= j]

IdleCall == [pc |-> "idle", fails |-> {}, log |-> <<>>, result |-> "none"]

InitTTS ==
  /\ ttsEnv \in SUBSET ProviderNames
  /\ ttsProvider = "none"
  /\ ttsCall = IdleCall
  /\ ttsCalls = 0

ParkedTTS ==
  /\ ttsEnv = {}
  /\ ttsProvider = "none"
  /\ ttsCall = IdleCall
  /\ ttsCalls = 0

\* initializeSession: sessions.set(sessionId, {provider: this.defaultProvider})
TtsInitializeSession ==
  /\ ttsCall.pc \in {"idle", "done"}
  /\ ttsProvider' = defaultProvider
  /\ UNCHANGED <<ttsEnv, ttsCall, ttsCalls>>
  /\ UNCHANGED notTtsVars

\* cleanupSession: sessions.delete(sessionId)
TtsCleanupSession ==
  /\ ttsCall.pc \in {"idle", "done"}
  /\ ttsProvider # "none"
  /\ ttsProvider' = "none"
  /\ UNCHANGED <<ttsEnv, ttsCall, ttsCalls>>
  /\ UNCHANGED notTtsVars

\* synthesize is called; `fails` are the providers whose synthesize rejects
\* during this call. A session that does not exist is initialized first.
TtsSynthesize(fails) ==
  /\ ttsCall.pc \in {"idle", "done"}
  /\ ttsCalls < MaxTtsCalls
  /\ fails \subseteq ttsEnv
  /\ ttsCalls' = ttsCalls + 1
  /\ ttsCall' = [pc |-> "select", fails |-> fails, log |-> <<>>, result |-> "none"]
  /\ ttsProvider' = IF ttsProvider = "none" THEN defaultProvider ELSE ttsProvider
  /\ UNCHANGED ttsEnv
  /\ UNCHANGED notTtsVars

\* synthesize, from the session lookup to the provider call
TtsSelect ==
  /\ ttsCall.pc = "select"
  /\ IF ttsProvider \notin ttsEnv \/ ~isAvailable(ttsProvider)
     THEN LET fallbackProvider == findAvailableProvider("none")
          IN IF fallbackProvider = "none"
             THEN /\ ttsCall' = [ttsCall EXCEPT !.pc = "done", !.result = "null"]
                  /\ UNCHANGED ttsProvider
             ELSE \* session.provider = fallbackProvider; return this.synthesize(...)
                  /\ ttsProvider' = fallbackProvider
                  /\ UNCHANGED ttsCall
     ELSE /\ Len(ttsCall.log) < MaxAttempts
          /\ ttsCall' = [ttsCall EXCEPT !.pc = "calling"]
          /\ UNCHANGED ttsProvider
  /\ UNCHANGED <<ttsEnv, ttsCalls>>
  /\ UNCHANGED notTtsVars

\* the awaited provider.synthesize settles: return audioData, or the catch
TtsProviderDone ==
  /\ ttsCall.pc = "calling"
  /\ LET log == Append(ttsCall.log, ttsProvider)
     IN IF ttsProvider \in ttsCall.fails
        THEN LET fallbackProvider == findAvailableProvider(ttsProvider)
             IN IF fallbackProvider # "none"
                THEN /\ ttsProvider' = fallbackProvider
                     /\ ttsCall' = [ttsCall EXCEPT !.pc = "select", !.log = log]
                ELSE /\ ttsCall' = [ttsCall EXCEPT !.pc = "done", !.log = log,
                                                   !.result = "null"]
                     /\ UNCHANGED ttsProvider
        ELSE /\ ttsCall' = [ttsCall EXCEPT !.pc = "done", !.log = log,
                                           !.result = ttsProvider]
             /\ UNCHANGED ttsProvider
  /\ UNCHANGED <<ttsEnv, ttsCalls>>
  /\ UNCHANGED notTtsVars

NextTTS ==
  \/ TtsInitializeSession
  \/ TtsCleanupSession
  \/ \E fails \in SUBSET ProviderNames : TtsSynthesize(fails)
  \/ TtsSelect
  \/ TtsProviderDone

\* =================================================================== segmenter
\* simple-test-server.js: the two servers of the file (lines 1-552, 553-825)

SegClients == 1..MaxSegClients
FrameLens == {SilenceThreshold, SilenceThreshold + 1,
              MinAudioLength - SilenceThreshold - 1, MinAudioLength}

\* the length test with its boundary moved: a 15-byte frame counts as speech
IsSpeech_inclusive(len) == len >= SilenceThreshold

\* if (data.length > 15)
IsSpeech(len) == len > SilenceThreshold

\* audioBuffer.reduce((sum, chunk) => sum + chunk.length, 0)
RECURSIVE totalLength(_)
totalLength(buf) ==
  IF buf = <<>> THEN 0 ELSE Head(buf)[2] + totalLength(Tail(buf))

\* the first server checks combinedBuffer.length < minAudioLength; the second
\* has no such check
TooShort(total) == segVariant = 1 /\ total < MinAudioLength

SegEv(t, id) == [type |-> t, id |-> id]

\* ws.send: nothing is delivered on a socket that is not open
segSend(log, c, e) ==
  IF segWs[c] = "open" THEN [log EXCEPT ![c] = Append(@, e)] ELSE log

RemoveAt(q, i) == SubSeq(q, 1, i - 1) \o SubSeq(q, i + 1, Len(q))

InitSeg ==
  /\ segVariant \in {1, 2}
  /\ segWs = [c \in SegClients |-> "none"]
  /\ audioBuffer = <<>>
  /\ segTimer = 0
  /\ segPending = <<>>
  /\ flushes = <<>>
  /\ delayed = <<>>
  /\ segNow = 0
  /\ segMsgs = 0
  /\ segLastLen = 0
  /\ segSent = [c \in SegClients |-> <<>>]

ParkedSeg ==
  /\ segVariant = 1
  /\ segWs = [c \in SegClients |-> "none"]
  /\ audioBuffer = <<>>
  /\ segTimer = 0
  /\ segPending = <<>>
  /\ flushes = <<>>
  /\ delayed = <<>>
  /\ segNow = 0
  /\ segMsgs = 0
  /\ segLastLen = 0
  /\ segSent = [c \in SegClients |-> <<>>]

\* the frame handler that arms a timer without clearing the pending one
clearTimeout_none(pending) == pending

\* if (audioProcessingTimeout) clearTimeout(audioProcessingTimeout): the
\* timer armed last is cancelled if it is still pending
clearTimeout(pending) ==
  IF segTimer # 0 THEN SubSeq(pending, 1, Len(pending) - 1) ELSE pending

\* wss.on('connection'): the welcome message
SegConnect(c) ==
  /\ segWs[c] = "none"
  /\ segWs' = [segWs EXCEPT ![c] = "open"]
  /\ segSent' = [segSent EXCEPT ![c] = Append(@, SegEv("connected", 0))]
  /\ UNCHANGED <<segVariant, audioBuffer, segTimer, segPending, flushes, delayed, segNow,
                 segMsgs, segLastLen>>
  /\ UNCHANGED notSegVars

\* ws.on('close'): only logs
SegClose(c) ==
  /\ segWs[c] = "open"
  /\ segWs' = [segWs EXCEPT ![c] = "closed"]
  /\ UNCHANGED <<segVariant, audioBuffer, segTimer, segPending, flushes, delayed, segNow,
                 segMsgs, segLastLen, segSent>>
  /\ UNCHANGED notSegVars

SegCanReceive(c) == segWs[c] = "open" /\ segMsgs < MaxSegMsgs

\* ws.on('message') with a Buffer
SegFrame(c, len) ==
  /\ SegCanReceive(c)
  /\ segMsgs' = segMsgs + 1
  /\ segLastLen' = len
  /\ IF IsSpeech(len)
     THEN /\ audioBuffer' = Append(audioBuffer, <<c, len>>)
          /\ segTimer' = c   \* clearTimeout, then setTimeout
          /\ segPending' = Append(clearTimeout(segPending), [to |-> c, due |-> FALSE])
     ELSE UNCHANGED <<audioBuffer, segTimer, segPending>>
  /\ UNCHANGED <<segVariant, segWs, flushes, delayed, segNow, segSent>>
  /\ UNCHANGED notSegVars

\* the setTimeout callback starts: up to its first await
SegTimerFire ==
  \E i \in DOMAIN segPending :
    /\ segPending[i].due
    /\ segPending' = RemoveAt(segPending, i)
    /\ segTimer' = IF i = Len(segPending) THEN 0 ELSE segTimer
    /\ IF audioBuffer = <<>>
       THEN UNCHANGED <<audioBuffer, flushes>>
       ELSE LET total == totalLength(audioBuffer)
            IN IF TooShort(total)
               THEN /\ audioBuffer' = <<>>
                    /\ UNCHANGED flushes
               ELSE /\ flushes' = Append(flushes,
                          [pc |-> IF segVariant = 1 THEN "stt" ELSE "process",
                           to |-> segPending[i].to, total |-> total])
                    /\ UNCHANGED audioBuffer
    /\ UNCHANGED <<segVariant, segWs, delayed, segNow, segMsgs, segLastLen, segSent>>
    /\ UNCHANGED notSegVars

\* 2000 ms pass without a non-silent frame: the pending timers become due
SegWindowElapses ==
  /\ \E i \in DOMAIN segPending : ~segPending[i].due
  /\ segPending' = [i \in DOMAIN segPending |-> [segPending[i] EXCEPT !.due = TRUE]]
  /\ UNCHANGED <<segVariant, segWs, audioBuffer, segTimer, flushes, delayed, segNow,
                 segMsgs, segLastLen, segSent>>
  /\ UNCHANGED notSegVars

\* first server: transcriptionService.transcribeAudio settles
SegSttDone(i, ok) ==
  /\ i \in DOMAIN flushes
  /\ flushes[i].pc = "stt"
  /\ IF ok
     THEN /\ flushes' = [flushes EXCEPT ![i].pc = "translate"]
          /\ UNCHANGED <<audioBuffer, segSent>>
     ELSE \* catch: the error message; then audioBuffer = []
          /\ flushes' = RemoveAt(flushes, i)
          /\ segSent' = segSend(segSent, flushes[i].to, SegEv("error", 0))
          /\ audioBuffer' = <<>>
  /\ UNCHANGED <<segVariant, segWs, segTimer, segPending, delayed, segNow, segMsgs, segLastLen>>
  /\ UNCHANGED notSegVars

\* first server: transcriptionService.translateText returns (it has its own
\* fallback and does not reject); transcription sent, translation scheduled
SegTranslateDone(i) ==
  /\ i \in DOMAIN flushes
  /\ flushes[i].pc = "translate"
  /\ flushes' = RemoveAt(flushes, i)
  /\ segSent' = segSend(segSent, flushes[i].to, SegEv("transcription", segNow))
  /\ delayed' = Append(delayed, [to |-> flushes[i].to, captionId |-> segNow])
  /\ audioBuffer' = <<>>
  /\ UNCHANGED <<segVariant, segWs, segTimer, segPending, segNow, segMsgs, segLastLen>>
  /\ UNCHANGED notSegVars

\* second server: transcriptionService.processAudio returns; its result reads
\* Date.now() once for transcription.id and again for translation.captionId
SegProcessDone(i, captionId) ==
  /\ i \in DOMAIN flushes
  /\ flushes[i].pc = "process"
  /\ captionId \in {segNow, segNow + 1}
  /\ captionId <= MaxClock
  /\ segNow' = captionId
  /\ flushes' = RemoveAt(flushes, i)
  /\ segSent' = segSend(segSent, flushes[i].to, SegEv("transcription", segNow))
  /\ delayed' = Append(delayed, [to |-> flushes[i].to, captionId |-> captionId])
  /\ audioBuffer' = <<>>
  /\ UNCHANGED <<segVariant, segWs, segTimer, segPending, segMsgs, segLastLen>>
  /\ UNCHANGED notSegVars

\* the 500 ms timer of the oldest scheduled translation fires
SegDelayedSend ==
  /\ delayed # <<>>
  /\ segSent' = segSend(segSent, Head(delayed).to,
                        SegEv("translation", Head(delayed).captionId))
  /\ delayed' = Tail(delayed)
  /\ UNCHANGED <<segVariant, segWs, audioBuffer, segTimer, segPending, flushes, segNow,
                 segMsgs, segLastLen>>
  /\ UNCHANGED notSegVars

\* session:start and audio:start are answered and change nothing
SegEcho(c, reply) ==
  /\ SegCanReceive(c)
  /\ segMsgs' = segMsgs + 1
  /\ segSent' = segSend(segSent, c, SegEv(reply, 0))
  /\ UNCHANGED <<segVariant, segWs, audioBuffer, segTimer, segPending, flushes, delayed,
                 segNow, segLastLen>>
  /\ UNCHANGED notSegVars

\* audio:stop and session:stop: clearTimeout, audioBuffer = [], the reply
SegStop(c, reply) ==
  /\ SegCanReceive(c)
  /\ segMsgs' = segMsgs + 1
  /\ segTimer' = 0
  /\ segPending' = clearTimeout(segPending)
  /\ audioBuffer' = <<>>
  /\ segSent' = segSend(segSent, c, SegEv(reply, 0))
  /\ UNCHANGED <<segVariant, segWs, flushes, delayed, segNow, segLastLen>>
  /\ UNCHANGED notSegVars

\* the wall clock advances
SegTick ==
  /\ segNow < MaxClock
  /\ segNow' = segNow + 1
  /\ UNCHANGED <<segVariant, segWs, audioBuffer, segTimer, segPending, flushes, delayed,
                 segMsgs, segLastLen, segSent>>
  /\ UNCHANGED notSegVars

NextSeg ==
  \/ \E c \in SegClients : SegConnect(c)
  \/ \E c \in SegClients : SegClose(c)
  \/ \E c \in SegClients, len \in FrameLens : SegFrame(c, len)
  \/ SegTimerFire
  \/ SegWindowElapses
  \/ \E i \in 1..MaxSegMsgs, ok \in BOOLEAN : SegSttDone(i, ok)
  \/ \E i \in 1..MaxSegMsgs : SegTranslateDone(i)
  \/ \E i \in 1..MaxSegMsgs, t \in 0..MaxClock : SegProcessDone(i, t)
  \/ SegDelayedSend
  \/ \E c \in SegClients, r \in {"session:started", "audio:started"} : SegEcho(c, r)
  \/ \E c \in SegClients, r \in {"audio:stopped", "session:stopped"} : SegStop(c, r)
  \/ SegTick

\* =================================================================== idle sweep
\* WebSocketHandler.startCleanupInterval and the lastActivity bookkeeping;
\* the handlers are taken as a whole (their awaits are not split here)

SweepClients == 1..MaxSweepClients

SwAbsent ==
  [present |-> FALSE, lastActivity |-> 0, sessionId |-> NoSession,
   sourceLanguage |-> "", targetLanguage |-> "", isRecording |-> FALSE]

\* the mutant of the staleness test: >= in place of >
Stale_inclusive(c, t) ==
  swTable[c].present /\ t - swTable[c].lastActivity >= IdleTimeout

\* now.getTime() - client.lastActivity.getTime() > timeout
Stale(c, t) ==
  swTable[c].present /\ t - swTable[c].lastActivity > IdleTimeout

\* clientSession.lastActivity = new Date(), if the client is still in the table
touch(tbl, c) ==
  IF tbl[c].present THEN [tbl EXCEPT ![c].lastActivity = swNow] ELSE tbl

\* sendMessage: one more event, if the client is in the table and its socket open
swSend(c) ==
  IF swTable[c].present /\ swWs[c] = "open"
  THEN [swEvents EXCEPT ![c] = @ + 1]
  ELSE swEvents

InitSweep ==
  /\ swNow = 0
  /\ swWs = [c \in SweepClients |-> "none"]
  /\ swTable = [c \in SweepClients |-> SwAbsent]
  /\ swRuns = [c \in SweepClients |-> 0]
  /\ swStops = {}
  /\ swEvents = [c \in SweepClients |-> 0]
  /\ swMsgs = 0

ParkedSweep == InitSweep

\* wss.on("connection")
SwConnect(c) ==
  /\ swWs[c] = "none"
  /\ swWs' = [swWs EXCEPT ![c] = "open"]
  /\ swTable' = [swTable EXCEPT ![c] =
                   [present |-> TRUE, lastActivity |-> swNow,
                    sessionId |-> NoSession, sourceLanguage |-> "en",
                    targetLanguage |-> "es", isRecording |-> FALSE]]
  /\ swEvents' = [swEvents EXCEPT ![c] = @ + 1]
  /\ UNCHANGED <<swNow, swRuns, swStops, swMsgs>>
  /\ UNCHANGED notSweepVars

SwCanReceive(c) == swWs[c] = "open" /\ swMsgs < MaxSweepMsgs

\* a control message is handled: session:start, audio:start or session:stop
SwControl(c, type) ==
  /\ SwCanReceive(c)
  /\ swMsgs' = swMsgs + 1
  /\ LET cl == swTable[c]
         tbl == CASE ~cl.present -> swTable
                  [] type = "session:start" ->
                       [swTable EXCEPT ![c].sessionId = c,
                                       ![c].sourceLanguage = "fr",
                                       ![c].targetLanguage = "de"]
                  [] type = "audio:start" ->
                       IF cl.sessionId = NoSession THEN swTable
                       ELSE [swTable EXCEPT ![c].isRecording = TRUE]
                  [] type = "session:stop" ->
                       [swTable EXCEPT ![c].sessionId = NoSession,
                                       ![c].isRecording = FALSE]
     IN /\ swTable' = touch(tbl, c)
        /\ swEvents' = IF type = "session:stop" /\ cl.sessionId = NoSession
                       THEN swEvents ELSE swSend(c)
  /\ UNCHANGED <<swNow, swWs, swRuns, swStops>>
  /\ UNCHANGED notSweepVars

\* a binary frame starts a processAudioChunk run
SwFrame(c) ==
  /\ SwCanReceive(c)
  /\ swMsgs' = swMsgs + 1
  /\ IF swTable[c].present /\ swTable[c].isRecording
     THEN /\ swRuns' = [swRuns EXCEPT ![c] = @ + 1]
          /\ UNCHANGED swTable
     ELSE /\ swTable' = touch(swTable, c)
          /\ UNCHANGED swRuns
  /\ UNCHANGED <<swNow, swWs, swStops, swEvents>>
  /\ UNCHANGED notSweepVars

\* the run returns; the message handler then updates lastActivity
SwRunDone(c) ==
  /\ swRuns[c] > 0
  /\ swRuns' = [swRuns EXCEPT ![c] = @ - 1]
  /\ swTable' = touch(swTable, c)
  /\ UNCHANGED <<swNow, swWs, swStops, swEvents, swMsgs>>
  /\ UNCHANGED notSweepVars

\* handleClientDisconnect: stopSession (not awaited), clients.delete
handleClientDisconnect(tbl, c) == [tbl EXCEPT ![c] = SwAbsent]

stopSessionCalls(cs) ==
  {swTable[c].sessionId : c \in {d \in cs : /\ swTable[d].present
                                            /\ swTable[d].sessionId # NoSession}}

\* ws.on("close")
SwClose(c) ==
  /\ swWs[c] = "open"
  /\ swWs' = [swWs EXCEPT ![c] = "closed"]
  /\ swStops' = swStops \cup stopSessionCalls({c})
  /\ swTable' = handleClientDisconnect(swTable, c)
  /\ UNCHANGED <<swNow, swRuns, swEvents, swMsgs>>
  /\ UNCHANGED notSweepVars

\* the setInterval callback, one interval after the previous one
SwSweep ==
  /\ swNow < MaxSweeps * SweepInterval
  /\ swNow' = swNow + SweepInterval
  /\ LET stale == {c \in SweepClients : Stale(c, swNow')}
     IN /\ swStops' = swStops \cup stopSessionCalls(stale)
        /\ swTable' = [c \in SweepClients |->
                         IF c \in stale THEN SwAbsent ELSE swTable[c]]
  /\ UNCHANGED <<swWs, swRuns, swEvents, swMsgs>>
  /\ UNCHANGED notSweepVars

NextSweep ==
  \/ \E c \in SweepClients : SwConnect(c)
  \/ \E c \in SweepClients :
       \E type \in {"session:start", "audio:start", "session:stop"} : SwControl(c, type)
  \/ \E c \in SweepClients : SwFrame(c)
  \/ \E c \in SweepClients : SwRunDone(c)
  \/ \E c \in SweepClients : SwClose(c)
  \/ SwSweep

\* =================================================================== translation
\* TranslationService (translation/translationService.ts) and the calls
\* TranslationPipeline makes on it for one connection

\* the keys under which session state is kept: the id of session:start
\* (client.sessionId) and processAudioChunk's `${clientId}_session`
ClientSessionKey == "sid"
ChunkKey == "chunk"
TsKeys == {ClientSessionKey, ChunkKey}

\* no SessionContext under the key
NoCtx == [gen |-> 0, history |-> <<>>, languages |-> <<"", "">>]

\* the language pairs a client asks for; the first is the default of a new
\* connection
LanguagePairs == {<<"en", "es">>, <<"en", "fr">>}
DefaultPair == <<"en", "es">>

\* the two lines translate pushes for its n-th text
Exchange(n) == <<2 * n - 1, 2 * n>>

\* the mutant of the trim: the first 20 lines are kept
trimHistory_keepsOldest(h) ==
  IF Len(h) > HistoryLimit THEN SubSeq(h, 1, HistoryLimit) ELSE h

\* if (history.length > 20) history = history.slice(-20)
trimHistory(h) ==
  IF Len(h) > HistoryLimit THEN SubSeq(h, Len(h) - HistoryLimit + 1, Len(h)) ELSE h

InitTr ==
  /\ tsSttInit \in BOOLEAN
  /\ tsTrInit \in BOOLEAN
  /\ tsPipe = {}
  /\ tsCtx = [k \in TsKeys |-> NoCtx]
  /\ tsGen = 0
  /\ tsCalls = <<>>
  /\ tsN = 0
  /\ tsStarts = 0
  /\ tsFails = 0
  /\ tsResult = <<0, "none">>
  /\ tsClient = DefaultPair

ParkedTr ==
  /\ tsSttInit = FALSE
  /\ tsTrInit = FALSE
  /\ tsPipe = {}
  /\ tsCtx = [k \in TsKeys |-> NoCtx]
  /\ tsGen = 0
  /\ tsCalls = <<>>
  /\ tsN = 0
  /\ tsStarts = 0
  /\ tsFails = 0
  /\ tsResult = <<0, "none">>
  /\ tsClient = DefaultPair

\* TranslationService.initializeSession: a fresh SessionContext under the key
initializeSession(ctx, k, pair) ==
  [ctx EXCEPT ![k] = [gen |-> tsGen + 1, history |-> <<>>, languages |-> pair]]

\* TranslationPipeline.startSession: sessions.set, then the services'
\* initializeSession in turn (STT first; a throw ends the sequence)
TsStartSession(k, pair) ==
  /\ tsPipe' = tsPipe \cup {k}
  /\ IF tsSttInit /\ tsTrInit
     THEN /\ tsCtx' = initializeSession(tsCtx, k, pair)
          /\ tsGen' = tsGen + 1
     ELSE UNCHANGED <<tsCtx, tsGen>>

\* handleSessionStart with data.sessionId = k and the languages of `pair`
TsSessionStart(k, pair) ==
  /\ tsStarts < MaxTsStarts
  /\ tsStarts' = tsStarts + 1
  /\ tsClient' = pair
  /\ TsStartSession(k, pair)
  /\ UNCHANGED <<tsSttInit, tsTrInit, tsCalls, tsN, tsFails, tsResult>>
  /\ UNCHANGED notTrVars

\* handleSessionStop / handleClientDisconnect: stopSession(client.sessionId)
TsSessionStop(k) ==
  /\ k \in tsPipe
  /\ tsPipe' = tsPipe \ {k}
  /\ tsCtx' = [tsCtx EXCEPT ![k] = NoCtx]
  /\ UNCHANGED <<tsSttInit, tsTrInit, tsGen, tsCalls, tsN, tsStarts, tsFails, tsResult,
                 tsClient>>
  /\ UNCHANGED notTrVars

\* handleConfigUpdate: the client's languages are replaced
TsConfigUpdate(pair) ==
  /\ tsClient' = pair
  /\ UNCHANGED <<tsSttInit, tsTrInit, tsPipe, tsCtx, tsGen, tsCalls, tsN, tsStarts,
                 tsFails, tsResult>>
  /\ UNCHANGED notTrVars

\* processAudioChunk of a frame whose STT result is final and not blank, up
\* to translate's `await model.generateContent(prompt)`: the chunk session is
\* started if the pipeline has none, translate creates the context if the
\* service has none, buildTranslationPrompt reads the languages of the
\* context. The call is made with the client's languages. Frames are processed
\* only after audio:start, which needs a session:start before it.
TsTranslate ==
  /\ tsStarts > 0
  /\ tsN < MaxTranslations
  /\ Len(tsCalls) < MaxTsInFlight
  /\ tsSttInit /\ tsTrInit
  /\ tsN' = tsN + 1
  /\ tsPipe' = tsPipe \cup {ChunkKey}
  /\ LET fresh == ChunkKey \notin tsPipe \/ tsCtx[ChunkKey].gen = 0
         ctx == IF fresh THEN initializeSession(tsCtx, ChunkKey, tsClient) ELSE tsCtx
     IN /\ tsCtx' = ctx
        /\ tsGen' = IF fresh THEN tsGen + 1 ELSE tsGen
        /\ tsCalls' = Append(tsCalls, [n |-> tsN + 1, gen |-> ctx[ChunkKey].gen,
                                       pc |-> "generate",
                                       prompt |-> ctx[ChunkKey].languages])
  /\ UNCHANGED <<tsSttInit, tsTrInit, tsStarts, tsFails, tsResult, tsClient>>
  /\ UNCHANGED notTrVars

\* translate resumes after generateContent: on success the exchange is pushed
\* onto the SessionContext the call holds (which the Map may no longer hold)
\* and the history is trimmed; on a throw the fallback request is sent
TsGenerateDone(i, ok) ==
  /\ i \in DOMAIN tsCalls
  /\ tsCalls[i].pc = "generate"
  /\ IF ok
     THEN /\ tsCalls' = RemoveAt(tsCalls, i)
          /\ tsResult' = <<tsCalls[i].n, "text">>
          /\ UNCHANGED tsFails
          /\ tsCtx' = [k \in TsKeys |->
                         IF tsCtx[k].gen = tsCalls[i].gen
                         THEN [tsCtx[k] EXCEPT !.history =
                                 trimHistory(@ \o Exchange(tsCalls[i].n))]
                         ELSE tsCtx[k]]
     ELSE /\ tsFails < MaxTsFailures
          /\ tsFails' = tsFails + 1
          /\ tsCalls' = [tsCalls EXCEPT ![i].pc = "fallback"]
          /\ UNCHANGED <<tsCtx, tsResult>>
  /\ UNCHANGED <<tsSttInit, tsTrInit, tsPipe, tsGen, tsN, tsStarts, tsClient>>
  /\ UNCHANGED notTrVars

\* fallbackTranslation settles: its text is returned, or null
TsFallbackDone(i, ok) ==
  /\ i \in DOMAIN tsCalls
  /\ tsCalls[i].pc = "fallback"
  /\ tsCalls' = RemoveAt(tsCalls, i)
  /\ tsResult' = <<tsCalls[i].n, IF ok THEN "text" ELSE "null">>
  /\ UNCHANGED <<tsSttInit, tsTrInit, tsPipe, tsCtx, tsGen, tsN, tsStarts, tsFails,
                 tsClient>>
  /\ UNCHANGED notTrVars

NextTr ==
  \/ \E k \in TsKeys : \E pair \in LanguagePairs : TsSessionStart(k, pair)
  \/ \E k \in TsKeys : TsSessionStop(k)
  \/ \E pair \in LanguagePairs : TsConfigUpdate(pair)
  \/ TsTranslate
  \/ \E i \in 1..MaxTsInFlight : \E ok \in BOOLEAN : TsGenerateDone(i, ok)
  \/ \E i \in 1..MaxTsInFlight : \E ok \in BOOLEAN : TsFallbackDone(i, ok)

\* =================================================================== glossary
\* TranslationService.addGlossaryTerm and the glossary of one SessionContext

\* a character is a letter in one of its two cases; "-" has no case
Chars == [letter : {"a", "b"}, upper : BOOLEAN] \cup {[letter |-> "-", upper |-> FALSE]}
Terms == UNION {[1..n -> Chars] : n \in 1..MaxTermLen}
Translations == {"x", "y"}

\* the mutant of the key: the term as given
toLowerCase_asGiven(term) == term

\* String.prototype.toLowerCase
toLowerCase(term) == [i \in DOMAIN term |-> [term[i] EXCEPT !.upper = FALSE]]

\* Map.prototype.set
MapSet(m, k, v) == [x \in DOMAIN m \cup {k} |-> IF x = k THEN v ELSE m[x]]

EmptyMap == [x \in {} |-> "x"]

InitGl ==
  /\ glSession = FALSE
  /\ glossary = EmptyMap
  /\ glCalls = <<>>

ParkedGl == InitGl

\* initializeSession: a SessionContext with glossary: new Map()
GlInitializeSession ==
  /\ glSession' = TRUE
  /\ glossary' = EmptyMap
  /\ glCalls' = <<>>
  /\ UNCHANGED notGlVars

\* cleanupSession: sessions.delete
GlCleanupSession ==
  /\ glSession
  /\ glSession' = FALSE
  /\ glossary' = EmptyMap
  /\ glCalls' = <<>>
  /\ UNCHANGED notGlVars

\* addGlossaryTerm(sessionId, originalTerm, translatedTerm)
addGlossaryTerm(originalTerm, translatedTerm) ==
  /\ Len(glCalls) < MaxGlossaryCalls
  /\ IF ~glSession
     THEN UNCHANGED <<glossary, glCalls>>
     ELSE /\ glossary' = MapSet(glossary, toLowerCase(originalTerm), translatedTerm)
          /\ glCalls' = Append(glCalls, <<originalTerm, translatedTerm>>)
  /\ UNCHANGED glSession
  /\ UNCHANGED notGlVars

NextGl ==
  \/ GlInitializeSession
  \/ GlCleanupSession
  \/ \E t \in Terms, v \in Translations : addGlossaryTerm(t, v)

\* =================================================================== STT
\* STTService (stt/sttService.ts) for one session id, with the
\* processAudioChunk runs of TranslationPipeline that write to it. The
\* transcripts of the results are taken to be non-blank.

SttObjIds == 1..MaxSttObjs

\* lastInterimResult === undefined
NoResult == <<0, 0>>

NoStream ==
  [made |-> FALSE, destroyed |-> FALSE, onTranscription |-> FALSE, utt |-> 1,
   lastInterimResult |-> NoResult, finalizeTimer |-> FALSE]

\* the object initializeSession stores: { stream, sessionId, language,
\* lastActivity, onTranscription }
NewStream(cb) == [NoStream EXCEPT !.made = TRUE, !.onTranscription = cb]

InitStt ==
  /\ stInit \in BOOLEAN
  /\ stPipe = FALSE
  /\ stObjs = [g \in SttObjIds |-> NoStream]
  /\ stCur = 0
  /\ stGen = 0
  /\ stEvents = 0
  /\ stDelivered = <<>>
  /\ stRestarts = 0
  /\ stErrors = 0
  /\ stFrames = 0
  /\ stRuns = [n \in (1..MaxSttFrames) |-> "none"]
  /\ stWritten = <<>>

ParkedStt ==
  /\ stInit = FALSE
  /\ stPipe = FALSE
  /\ stObjs = [g \in SttObjIds |-> NoStream]
  /\ stCur = 0
  /\ stGen = 0
  /\ stEvents = 0
  /\ stDelivered = <<>>
  /\ stRestarts = 0
  /\ stErrors = 0
  /\ stFrames = 0
  /\ stRuns = [n \in (1..MaxSttFrames) |-> "none"]
  /\ stWritten = <<>>

\* handleTranscriptionResult over the sessions map `objs`/`cur`
handleTranscriptionResult(objs, cur, log, result) ==
  IF cur # 0 /\ objs[cur].onTranscription THEN Append(log, result) ELSE log

\* handleInterimResult: clearTimeout, lastInterimResult = result, setTimeout
handleInterimResult(objs, cur, result) ==
  IF cur = 0 THEN objs
  ELSE [objs EXCEPT ![cur].lastInterimResult = result, ![cur].finalizeTimer = TRUE]

\* initializeSession(sessionId, language, onTranscription) called by a user
\* of the service
StInitializeSession(cb) ==
  /\ stInit
  /\ stGen < MaxSttObjs
  /\ stGen' = stGen + 1
  /\ stObjs' = [stObjs EXCEPT ![stGen + 1] = NewStream(cb)]
  /\ stCur' = stGen + 1
  /\ UNCHANGED <<stInit, stPipe, stEvents, stDelivered, stRestarts, stErrors, stFrames,
                 stRuns, stWritten>>
  /\ UNCHANGED notSttVars

\* stream.on("data") of stream g with a result of its current utterance
StStreamData(g, isFinal) ==
  /\ stObjs[g].made /\ ~stObjs[g].destroyed
  /\ stEvents < MaxSttEvents
  /\ stObjs[g].utt <= MaxUtterances
  /\ stEvents' = stEvents + 1
  /\ LET result == <<g, stObjs[g].utt>>
         \* if (!transcriptionResult.isFinal) this.handleInterimResult(...)
         objs1 == IF isFinal THEN stObjs
                  ELSE handleInterimResult(stObjs, stCur, result)
     IN /\ stObjs' = IF isFinal THEN [objs1 EXCEPT ![g].utt = @ + 1] ELSE objs1
        /\ stDelivered' = handleTranscriptionResult(stObjs, stCur, stDelivered,
                            [utt |-> result, isFinal |-> isFinal, auto |-> FALSE])
  /\ UNCHANGED <<stInit, stPipe, stCur, stGen, stRestarts, stErrors, stFrames, stRuns,
                 stWritten>>
  /\ UNCHANGED notSttVars

\* the setTimeout(..., 2000) callback of handleInterimResult; it holds the
\* session object it was armed for
StFinalizeTimerFire(g) ==
  /\ stObjs[g].finalizeTimer
  /\ IF stObjs[g].lastInterimResult # NoResult
     THEN /\ stDelivered' = handleTranscriptionResult(stObjs, stCur, stDelivered,
                 [utt |-> stObjs[g].lastInterimResult, isFinal |-> TRUE, auto |-> TRUE])
          /\ stObjs' = [stObjs EXCEPT ![g].finalizeTimer = FALSE,
                                      ![g].lastInterimResult = NoResult]
     ELSE /\ stObjs' = [stObjs EXCEPT ![g].finalizeTimer = FALSE]
          /\ UNCHANGED stDelivered
  /\ UNCHANGED <<stInit, stPipe, stCur, stGen, stEvents, stRestarts, stErrors, stFrames,
                 stRuns, stWritten>>
  /\ UNCHANGED notSttVars

\* stream.on("error"): handleStreamError arms the restart
StStreamError(g) ==
  /\ stObjs[g].made /\ ~stObjs[g].destroyed
  /\ stErrors < MaxStreamErrors
  /\ stErrors' = stErrors + 1
  /\ stRestarts' = stRestarts + 1
  /\ UNCHANGED <<stInit, stPipe, stObjs, stCur, stGen, stEvents, stDelivered, stFrames,
                 stRuns, stWritten>>
  /\ UNCHANGED notSttVars

\* cleanupSession over the sessions map
cleanupSession(objs, cur) ==
  IF cur = 0 THEN objs
  ELSE [objs EXCEPT ![cur].finalizeTimer = FALSE, ![cur].destroyed = TRUE]

\* the restart callback of handleStreamError: cleanupSession, then
\* initializeSession(sessionId, session.language), with no third argument
StRestart ==
  /\ stRestarts > 0
  /\ stRestarts' = stRestarts - 1
  /\ IF stCur = 0
     THEN UNCHANGED <<stObjs, stCur, stGen>>
     ELSE /\ stGen < MaxSttObjs
          /\ stGen' = stGen + 1
          /\ stObjs' = [cleanupSession(stObjs, stCur) EXCEPT
                          ![stGen + 1] = NewStream(FALSE)]
          /\ stCur' = stGen + 1
  /\ UNCHANGED <<stInit, stPipe, stEvents, stDelivered, stErrors, stFrames, stRuns,
                 stWritten>>
  /\ UNCHANGED notSttVars

\* TranslationPipeline.stopSession: cleanupSession and sessions.delete
StStopSession ==
  /\ stPipe
  /\ stObjs' = cleanupSession(stObjs, stCur)
  /\ stCur' = 0
  /\ stPipe' = FALSE
  /\ UNCHANGED <<stInit, stGen, stEvents, stDelivered, stRestarts, stErrors, stFrames,
                 stRuns, stWritten>>
  /\ UNCHANGED notSttVars

\* STTService.processAudio(sessionId, frame n) up to its first await or its
\* return: with a session it writes the frame to the stream; without one it
\* calls initializeSession (which throws when the service is not
\* initialized) and awaits it
processAudio(n) ==
  IF stCur # 0
  THEN /\ stWritten' = IF stObjs[stCur].destroyed THEN stWritten
                       ELSE Append(stWritten, n)
       /\ stRuns' = [stRuns EXCEPT ![n] = "none"]
       /\ UNCHANGED <<stObjs, stCur, stGen>>
  ELSE IF stInit /\ stGen < MaxSttObjs
       THEN /\ stGen' = stGen + 1
            /\ stObjs' = [stObjs EXCEPT ![stGen + 1] = NewStream(FALSE)]
            /\ stCur' = stGen + 1
            /\ stRuns' = [stRuns EXCEPT ![n] = "stt"]
            /\ UNCHANGED stWritten
       ELSE /\ stRuns' = [stRuns EXCEPT ![n] = "none"]
            /\ UNCHANGED <<stObjs, stCur, stGen, stWritten>>

\* ws.on("message") with a Buffer while recording: processAudioChunk up to
\* its first await
StFrame ==
  /\ stFrames < MaxSttFrames
  /\ stFrames' = stFrames + 1
  /\ LET n == stFrames + 1
     IN IF ~stPipe
        THEN \* startSession: sessions.set, sttService.initializeSession
             /\ stPipe' = TRUE
             /\ IF stInit /\ stGen < MaxSttObjs
                THEN /\ stGen' = stGen + 1
                     /\ stObjs' = [stObjs EXCEPT ![stGen + 1] = NewStream(FALSE)]
                     /\ stCur' = stGen + 1
                     /\ stRuns' = [stRuns EXCEPT ![n] = "init"]
                ELSE UNCHANGED <<stObjs, stCur, stGen, stRuns>>
             /\ UNCHANGED stWritten
        ELSE /\ processAudio(n)
             /\ UNCHANGED stPipe
  /\ UNCHANGED <<stInit, stEvents, stDelivered, stRestarts, stErrors>>
  /\ UNCHANGED notSttVars

\* a suspended processAudioChunk run resumes: after startSession it calls
\* processAudio; after processAudio's own initializeSession it calls
\* processAudio again
StFrameResume(n) ==
  /\ stRuns[n] \in {"init", "stt"}
  /\ processAudio(n)
  /\ UNCHANGED <<stInit, stPipe, stEvents, stDelivered, stRestarts, stErrors, stFrames>>
  /\ UNCHANGED notSttVars

NextStt ==
  \/ \E cb \in BOOLEAN : StInitializeSession(cb)
  \/ \E g \in SttObjIds, isFinal \in BOOLEAN : StStreamData(g, isFinal)
  \/ \E g \in SttObjIds : StFinalizeTimerFire(g)
  \/ \E g \in SttObjIds : StStreamError(g)
  \/ StRestart
  \/ StStopSession
  \/ StFrame
  \/ \E n \in (1..MaxSttFrames) : StFrameResume(n)

\* ------------------------------------------------ claims on Spec

Connected(c) == clients[c].present /\ ws[c] = "open"

\* the event a step appended to connection c's log, or a "none" event
Appended(c) ==
  IF Len(sent'[c]) = Len(sent[c]) + 1
  THEN sent'[c][Len(sent'[c])]
  ELSE Ev("none", 0, NoSession, "", "", FALSE)

AudioRunsInFlight(c) ==
  {h \in HandlerIds : /\ handlers[h].kind = "audio"
                      /\ handlers[h].client = c
                      /\ handlers[h].pc \in InFlightPcs}

\* C1: for every connection, at every instant, at most one processAudioChunk
\* run (between its first await and its return) is in flight.
C1_AtMostOneRunInFlight ==
  \A c \in ClientIds : Cardinality(AudioRunsInFlight(c)) <= 1

\* a step in which the STT stage or the translation stage of run h fails
StageFails(h) ==
  \/ AudioInitDone(h) /\ ~(sttInit /\ trInit)
  \/ SttDone(h, "throw")
  \/ TranslateDone(h, "throw")
  \/ TranslateDone(h, "null")

C7_SegmentYieldsTranscription ==
  [][\A h \in HandlerIds : \A out \in {"null", "interim", "final", "blank"} :
       SttDone(h, out) =>
         (Connected(handlers[h].client) =>
            /\ Appended(handlers[h].client).type = "transcription"
            /\ Appended(handlers[h].client).id = h)]_vars

\* C10: when the pipeline session starts, the reply to session:start{s, a, b}
\* is session:started carrying exactly s, a and b (a fresh non-empty id when s
\* is omitted, the defaults "en"/"es" when a or b is), and the client's state
\* holds the same values.
C10_StartedEchoesRequest ==
  [][\A h \in HandlerIds :
       (sttInit /\ trInit /\ SessionStartDone(h)) =>
         LET c  == handlers[h].client
             ev == Appended(c)
         IN Connected(c) =>
              /\ ev.type = "session:started"
              /\ ev.sessionId # NoSession
              /\ handlers[h].sid # NoSession => ev.sessionId = handlers[h].sid
              /\ ev.sourceLanguage = OrDefault(handlers[h].src, "en")
              /\ ev.targetLanguage = OrDefault(handlers[h].tgt, "es")
              /\ clients'[c].sessionId = ev.sessionId
              /\ clients'[c].sourceLanguage = ev.sourceLanguage
              /\ clients'[c].targetLanguage = ev.targetLanguage]_vars

\* the event types of a connection's log, in order
Types(log) == [i \in DOMAIN log |-> log[i].type]

\* C11: a client that has sent only session:start and has received connected
\* and session:started, and then sends audio:start, has received exactly
\* connected, session:started, audio:started, in that order.
C11_HandshakeInOrder ==
  [][\A c \in ClientIds :
       ( /\ nextH = 2
         /\ Types(sent[c]) = <<"connected", "session:started">>
         /\ AudioStart(c) )
       => Types(sent'[c]) = <<"connected", "session:started", "audio:started">>]_vars

\* C11 witness: the three events have arrived, after two messages
C11_HandshakeDone ==
  \E c \in ClientIds :
    /\ nextH = 3
    /\ Types(sent[c]) = <<"connected", "session:started", "audio:started">>

\* the text of an error event
ErrorText(e) == e.sourceLanguage

\* C12: audio:start on a connection without a session id is answered with the
\* error 'No active session' and isRecording stays false; with a session id
\* it sets isRecording and is answered with audio:started.
C12_AudioStartNeedsSession ==
  [][\A c \in ClientIds :
       (AudioStart(c) /\ clients[c].present) =>
         IF clients[c].sessionId = NoSession
         THEN /\ Appended(c).type = "error"
              /\ ErrorText(Appended(c)) = "No active session"
              /\ ~clients'[c].isRecording
         ELSE /\ Appended(c).type = "audio:started"
              /\ clients'[c].isRecording]_vars

\* C12 witness: one audio:start was refused and a later one accepted
C12_RefusedThenAccepted ==
  \E c \in ClientIds : \E i, j \in DOMAIN sent[c] :
    /\ i < j
    /\ sent[c][i].type = "error"
    /\ ErrorText(sent[c][i]) = "No active session"
    /\ sent[c][j].type = "audio:started"
    /\ clients[c].isRecording

\* C13: a client in the table with isRecording = true has a session id.
C13_RecordingHasSession ==
  \A c \in ClientIds :
    (clients[c].present /\ clients[c].isRecording) =>
      clients[c].sessionId # NoSession

\* C13 witness: a client is recording while its session:stop is suspended at
\* the await of stopSession
C13_RecordingWhileStopping ==
  \E c \in ClientIds : \E h \in HandlerIds :
    /\ clients[c].present /\ clients[c].isRecording
    /\ handlers[h].client = c
    /\ handlers[h].kind = "session:stop" /\ handlers[h].pc = "stopping"

\* C14: a session:start handled while a processAudioChunk run of the
\* connection is in flight leaves the client's session id and languages as
\* they were.
C14_StartRejectedDuringRun ==
  [][\A c \in ClientIds : \A a \in StartArgs :
       (SessionStart(c, a[1], a[2], a[3]) /\ AudioRunsInFlight(c) # {}) =>
         clients'[c] = clients[c]]_vars

\* C18: session:stop, audio:start or audio:silence received by a connected
\* client that has no active session is answered with an error event, and the
\* client stays in the table.
C18_UnmetPreconditionAnswered ==
  [][\A c \in ClientIds :
       ( /\ Connected(c)
         /\ clients[c].sessionId = NoSession
         /\ \/ SessionStop(c)
            \/ AudioStart(c)
            \/ \E hasData \in BOOLEAN : AudioSilence(c, hasData) )
       => /\ Appended(c).type = "error"
          /\ clients'[c].present]_vars

\* C19: a frame that cannot be parsed as a control message, or whose type is
\* unknown, received by a connected client is answered with an error event;
\* the socket stays open and the client's entry (sessionId, languages,
\* isRecording) is unchanged.
C19_BadFrameAnswered ==
  [][\A c \in ClientIds :
       ( /\ Connected(c)
         /\ \/ UnknownMessage(c)
            \/ \E jsonFirst \in BOOLEAN : InvalidMessage(c, jsonFirst) )
       => /\ Appended(c).type = "error"
          /\ ws'[c] = "open"
          /\ clients'[c] = clients[c]]_vars

\* a step in which run h ends in processAudioChunk's catch
RunFails(h) ==
  \/ AudioInitDone(h) /\ ~(sttInit /\ trInit)
  \/ SttDone(h, "throw")
  \/ TranslateDone(h, "throw")

\* the client has been told of a failed run
FailedBefore(c) ==
  \E i \in DOMAIN sent[c] :
    sent[c][i].type = "error" /\ ErrorText(sent[c][i]) = "Audio processing failed"

\* C20: the step in which a pipeline run fails with a provider error leaves
\* the whole session table unchanged (the client's entry stays, with its
\* sessionId and isRecording), and a binary frame received after such a
\* failure by the client, still connected and recording, starts a new run.
C20_SessionSurvivesFailedRun ==
  [][/\ \A h \in HandlerIds : RunFails(h) => clients' = clients
     /\ \A c \in ClientIds :
          ( /\ AudioFrame(c)
            /\ FailedBefore(c)
            /\ Connected(c)
            /\ clients[c].isRecording )
          => /\ nextH \in AudioRunsInFlight(c)'
             /\ clients' = clients]_vars

\* C20 witness: the client was told "Audio processing failed" as the last
\* event so far, is still in the table with its session, recording, and the
\* run of its fourth frame is in flight while no other handler is.
C20_RunAfterFailure ==
  \E c \in ClientIds :
    /\ FailedBefore(c)
    /\ sent[c][Len(sent[c])].type = "error"
    /\ Connected(c)
    /\ clients[c].sessionId # NoSession
    /\ clients[c].isRecording
    /\ AudioRunsInFlight(c) = {MaxMsgs}
    /\ \A h \in HandlerIds \ {MaxMsgs} : handlers[h] = NoHandler

C34_NoSessionLeftAfterDisconnect ==
  \A c \in ClientIds :
    ( /\ ws[c] = "closed"
      /\ pendingStops = {}
      /\ \A h \in HandlerIds : handlers[h].client # c )
    => ChunkSessionId(c) \notin pipeSessions

\* C36: where the services are not initialized every session:start fails
\* and is answered with an error; the connection is left without a session,
\* so an audio:start that follows (no session:start still running) is
\* answered with the error 'No active session'.
C36_FailedStartLeavesNoSession ==
  [][\A c \in ClientIds :
       ( /\ AudioStart(c)
         /\ clients[c].present
         /\ ~(sttInit /\ trInit)
         /\ \A h \in HandlerIds :
              ~(handlers[h].kind = "session:start" /\ handlers[h].client = c) )
       => /\ Appended(c).type = "error"
          /\ ErrorText(Appended(c)) = "No active session"]_vars

\* ------------------------------------------------ claims on SpecSweep (idle sweep)

C31_OpenConnectionHasEntry ==
  \A c \in SweepClients : swWs[c] = "open" => swTable[c].present

\* ------------------------------------------------ claims on SpecGl (glossary)

\* two terms that differ at most in the case of their letters
SameLetters(t1, t2) ==
  /\ Len(t1) = Len(t2)
  /\ \A i \in DOMAIN t1 : t1[i].letter = t2[i].letter

\* the calls that no later call with the same letters follows
LastCalls ==
  {i \in DOMAIN glCalls :
     \A j \in DOMAIN glCalls : j > i => ~SameLetters(glCalls[j][1], glCalls[i][1])}

C35_OneFinalPerUtterance ==
  \A i, j \in DOMAIN stDelivered :
    ( /\ i # j
      /\ stDelivered[i].isFinal
      /\ stDelivered[j].isFinal )
    => stDelivered[i].utt # stDelivered[j].utt

\* C37: the frames are written to the session's stream in the order in
\* which they arrived.
C37_FramesWrittenInOrder ==
  \A i, j \in DOMAIN stWritten : i < j => stWritten[i] < stWritten[j]

\* C39: the session a restart creates has the callback of the session it
\* replaces.
C39_RestartKeepsCallback ==
  [][(StRestart /\ stCur # 0) =>
       stObjs'[stCur'].onTranscription = stObjs[stCur].onTranscription]_vars

\* ------------------------------------------------ claims on SpecTTS

\* the providers 1..n of the configured order, as a set
FirstProviders(n) == {Providers[i] : i \in 1..n}

\* C3: in a synthesize call that starts at the first provider and in which
\* exactly providers 1..k-1 fail, every provider call made is the next one in
\* the configured order, none lies beyond provider k, and the call ends with
\* provider k's audio and provider k as the session's provider.
C3_FallbackReachesFirstWorking ==
  [][\A k \in DOMAIN ProviderOrder :
       ( /\ k <= Len(Providers)
         /\ TtsProviderDone
         /\ ttsCall.fails = FirstProviders(k - 1)
         /\ ttsCall'.log[1] = Providers[1] )
       => /\ Len(ttsCall'.log) <= k
          /\ ttsCall'.log = SubSeq(Providers, 1, Len(ttsCall'.log))
          /\ ttsCall'.pc = "done" =>
               /\ ttsCall'.result = Providers[k]
               /\ ttsProvider' = Providers[k]]_vars

\* C4: within one synthesize call no provider is attempted more than once.
C4_EachProviderTriedOnce ==
  \A p \in ProviderNames :
    Cardinality({i \in DOMAIN ttsCall.log : ttsCall.log[i] = p}) <= 1

\* C23: the sticky provider of an initialized session is replaced by another
\* provider only in a step in which that provider's synthesize call succeeds
\* for the session.
C23_StickyOnlyAfterSuccess ==
  [][( /\ ttsProvider # "none"
       /\ ttsProvider' # "none"
       /\ ttsProvider' # ttsProvider )
     => ttsCall'.result = ttsProvider']_vars

\* C27: when every configured TTS provider fails during a synthesize call,
\* the call returns null as soon as the last of them has failed, so that the
\* pipeline can send the translation event without audio.
C27_AllFailedEndsWithNull ==
  [][( /\ TtsProviderDone
       /\ ttsCall.fails = ttsEnv
       /\ \A p \in ttsEnv : \E i \in DOMAIN ttsCall'.log : ttsCall'.log[i] = p )
     => /\ ttsCall'.pc = "done"
        /\ ttsCall'.result = "null"]_vars

\* ------------------------------------------------ claims on SpecSeg

\* C2: every translation event on a connection carries the id of a
\* transcription event sent earlier on the same connection.
C2_CaptionIdOfEarlierTranscription ==
  \A c \in SegClients : \A j \in DOMAIN segSent[c] :
    segSent[c][j].type = "translation" =>
      \E i \in 1..(j - 1) : /\ segSent[c][i].type = "transcription"
                            /\ segSent[c][i].id = segSent[c][j].id

\* C6: on a connection, no transcription or translation event follows a
\* session:stopped event unless a session:started event lies between them.
C6_NothingAfterSessionStopped ==
  \A c \in SegClients : \A i, j \in DOMAIN segSent[c] :
    ( /\ i < j
      /\ segSent[c][i].type = "session:stopped"
      /\ segSent[c][j].type \in {"transcription", "translation"} )
    => \E k \in (i + 1)..(j - 1) : segSent[c][k].type = "session:started"

\* C8: when the inactivity timer fires on a non-empty buffer, the segment goes
\* to the speech-to-text provider exactly if its total length is at least
\* 8000 bytes; a shorter one is cleared and no event is sent.
C8_FlushOnlyAtMinimumLength ==
  [][(SegTimerFire /\ audioBuffer # <<>>) =>
       LET total == totalLength(audioBuffer)
       IN /\ (flushes' # flushes) <=> (total >= MinAudioLength)
          /\ total < MinAudioLength =>
               (audioBuffer' = <<>> /\ segSent' = segSent)]_vars

\* C9: a binary frame of at most 15 bytes is not appended to the audio buffer
\* and neither starts nor resets the inactivity timer.
C9_SilenceFrameIgnored ==
  [][\A c \in SegClients, len \in FrameLens :
       (len <= SilenceThreshold /\ SegFrame(c, len)) =>
         UNCHANGED <<audioBuffer, segTimer>>]_vars

\* C9 witness: a frame of at most 15 bytes was the last one received while a
\* segment is buffered and its timer is pending.
C9_SilenceFrameSeen ==
  /\ segLastLen # 0
  /\ segLastLen <= SilenceThreshold
  /\ audioBuffer # <<>>
  /\ segTimer # 0

\* C16: audio:stop cancels the pending inactivity timer and hands the audio
\* buffered so far to the pipeline (a flush is started for the whole buffer,
\* even below the minimum length) instead of discarding it; audio:stopped is
\* then sent.
C16_StopFlushesBuffer ==
  [][\A c \in SegClients :
       (SegStop(c, "audio:stopped") /\ audioBuffer # <<>>) =>
         /\ segTimer' = 0
         /\ Len(flushes') = Len(flushes) + 1
         /\ flushes'[Len(flushes')].total = totalLength(audioBuffer)]_vars

\* whether the connection's last audio:start has not been followed by a stop:
\* the server keeps no such flag, the replies it sent tell
SegRecording(c) ==
  LET log == segSent[c]
      marks == {i \in DOMAIN log :
                  log[i].type \in {"audio:started", "audio:stopped", "session:stopped"}}
  IN /\ marks # {}
     /\ log[CHOOSE i \in marks : \A j \in marks : j <= i].type = "audio:started"

\* C17: a binary frame received while the client is not recording causes no
\* buffering, arms no timer and starts no provider call.
C17_FrameIgnoredUnlessRecording ==
  [][\A c \in SegClients, len \in FrameLens :
       (SegFrame(c, len) /\ ~SegRecording(c)) =>
         UNCHANGED <<audioBuffer, segTimer, flushes>>]_vars

\* C21: once a connection has closed, no timer belonging to it is pending: the
\* inactivity timer is not armed for it and no delayed translation send is
\* scheduled for it.
C21_NoTimerAfterClose ==
  \A c \in SegClients :
    segWs[c] = "closed" =>
      /\ segTimer # c
      /\ \A i \in DOMAIN delayed : delayed[i].to # c

\* C24: when a flush returns from its providers, the frames that were
\* buffered after the flush started (the buffer is then longer than the
\* segment being flushed) stay in the buffer for the next segment.
C24_FrameDuringFlushKept ==
  [][\A i \in DOMAIN flushes :
       ( /\ \/ SegTranslateDone(i)
            \/ \E captionId \in 0..MaxClock : SegProcessDone(i, captionId)
         /\ totalLength(audioBuffer) > flushes[i].total )
       => audioBuffer' # <<>>]_vars

\* C30: at most one inactivity timer is pending; a non-silent frame cancels
\* the pending timer and arms a new one, whose window starts at that frame; and
\* a timer fires only when the window has passed for every pending timer, that
\* is, with no non-silent frame inside the window.
C30_OneTimerFullWindow ==
  /\ [](Len(segPending) <= 1)
  /\ [][\A c \in SegClients, len \in FrameLens :
          (SegFrame(c, len) /\ len > SilenceThreshold) =>
            segPending' = <<[to |-> c, due |-> FALSE]>>]_vars
  /\ [][SegTimerFire => \A i \in DOMAIN segPending : segPending[i].due]_vars

\* C30 witness: the timer has fired and started a flush after two non-silent
\* frames were buffered, the second of which re-armed it.
C30_FlushAfterRearm ==
  /\ Len(audioBuffer) = 2
  /\ segPending = <<>>
  /\ flushes # <<>>
  /\ flushes[1].total = totalLength(audioBuffer)

\* C33: a segment flushed for a connection holds only frames received on
\* that connection (so the events of the segment go to the connection whose
\* audio produced them).
C33_SegmentOfOneConnection ==
  [][(SegTimerFire /\ Len(flushes') > Len(flushes)) =>
       \A k \in DOMAIN audioBuffer :
         audioBuffer[k][1] = flushes'[Len(flushes')].to]_vars

\* ------------------------------------------------ claims on SpecTr

\* C22: a session's conversation history never holds more than 20 lines, and
\* a translation that pushes its exchange leaves the last 20 lines of the
\* old history followed by the new exchange: the oldest lines are the ones
\* dropped, the order is kept.
C22_HistoryKeepsLast20 ==
  /\ [](\A k \in TsKeys : Len(tsCtx[k].history) <= 20)
  /\ [][\A i \in DOMAIN tsCalls : \A k \in TsKeys :
          (TsGenerateDone(i, TRUE) /\ tsCtx[k].gen = tsCalls[i].gen) =>
            LET all == tsCtx[k].history \o Exchange(tsCalls[i].n)
                drop == IF Len(all) > 20 THEN Len(all) - 20 ELSE 0
            IN tsCtx'[k].history = SubSeq(all, drop + 1, Len(all))]_vars

\* C22 witness: a history of 20 lines whose first exchange has been dropped.
C22_OldestExchangeDropped ==
  \E k \in TsKeys :
    /\ Len(tsCtx[k].history) = 20
    /\ tsCtx[k].history[1] > 2
    /\ tsResult[2] = "text"

\* C25: after a session:start that succeeds, the context the next translation
\* of the connection will use (the one kept under processAudioChunk's key)
\* holds no history.
C25_StartResetsContext ==
  [][\A k \in TsKeys : \A pair \in LanguagePairs :
       (TsSessionStart(k, pair) /\ tsSttInit /\ tsTrInit) =>
         tsCtx'[ChunkKey].history = <<>>]_vars

\* C28: the step that builds the prompt and sends the request leaves the
\* history of an existing context unchanged; a translate call that returns
\* null leaves every context unchanged; and a translate call that returns a
\* translated text leaves its exchange as the last two lines of the history
\* of its session's context.
C28_HistoryFollowsReturnedText ==
  [][/\ TsTranslate =>
          (tsCtx[ChunkKey].gen # 0 => tsCtx'[ChunkKey] = tsCtx[ChunkKey])
     /\ \A i \in DOMAIN tsCalls :
          /\ TsFallbackDone(i, FALSE) => tsCtx' = tsCtx
          /\ ( /\ TsGenerateDone(i, TRUE) \/ TsFallbackDone(i, TRUE)
               /\ tsCtx[ChunkKey].gen = tsCalls[i].gen )
             => LET h == tsCtx'[ChunkKey].history
                IN /\ Len(h) >= 2
                   /\ SubSeq(h, Len(h) - 1, Len(h)) = Exchange(tsCalls[i].n)]_vars

\* C38: on a connection that sent one session:start, so that only
\* config:update has changed its languages since, the prompt of every
\* translation is built for the language pair the client has at that time.
C38_PromptUsesUpdatedLanguages ==
  [][(TsTranslate /\ tsStarts = 1) =>
       tsCalls'[Len(tsCalls')].prompt = tsClient]_vars

Init == InitWS /\ ParkedTTS /\ ParkedSeg /\ ParkedSweep /\ ParkedTr /\ ParkedGl /\ ParkedStt
Next == NextWS
Spec == Init /\ [][Next]_vars

\* Spec with the scheduling the event loop guarantees: a continuation whose
\* await needs no answer from outside the process (session bookkeeping) runs;
\* the answers of the STT, translation and TTS providers are not the
\* program's to schedule, and the program sets no timer on them
SchedulingWS ==
  /\ WF_vars(\E h \in HandlerIds : AudioInitDone(h))
  /\ WF_vars(\E h \in HandlerIds : SessionStartDone(h))
  /\ WF_vars(\E h \in HandlerIds : SessionStopDone(h))
  /\ WF_vars(\E h \in HandlerIds : AudioStopDone(h))
  /\ WF_vars(\E s \in pendingStops : StopSessionDone(s))
SpecFair == Spec /\ SchedulingWS

InitT == ParkedWS /\ InitTTS /\ ParkedSeg /\ ParkedSweep /\ ParkedTr /\ ParkedGl /\ ParkedStt
NextT == NextTTS
SpecTTS == InitT /\ [][NextT]_vars

InitS == ParkedWS /\ ParkedTTS /\ InitSeg /\ ParkedSweep /\ ParkedTr /\ ParkedGl /\ ParkedStt
NextS == NextSeg
SpecSeg == InitS /\ [][NextS]_vars

InitW == ParkedWS /\ ParkedTTS /\ ParkedSeg /\ InitSweep /\ ParkedTr /\ ParkedGl /\ ParkedStt
NextW == NextSweep
SpecSweep == InitW /\ [][NextW]_vars

InitR == ParkedWS /\ ParkedTTS /\ ParkedSeg /\ ParkedSweep /\ InitTr /\ ParkedGl /\ ParkedStt
NextR == NextTr
SpecTr == InitR /\ [][NextR]_vars

InitG == ParkedWS /\ ParkedTTS /\ ParkedSeg /\ ParkedSweep /\ ParkedTr /\ InitGl /\ ParkedStt
NextG == NextGl
SpecGl == InitG /\ [][NextG]_vars

InitV == ParkedWS /\ ParkedTTS /\ ParkedSeg /\ ParkedSweep /\ ParkedTr /\ ParkedGl /\ InitStt
NextV == NextStt
SpecStt == InitV /\ [][NextV]_vars

====
